---- MODULE Spec2Model ----
(***************************************************************************)
(* Model of the UniProt XML -> graph -> Neo4j pipeline.                    *)
(*                                                                         *)
(*   utils/xml_graph_parser.py  XMLGraphParser  (the extractor)            *)
(*   utils/neo4j.py             Neo4J           (the database loader)      *)
(*                                                                         *)
(* An XML document is modelled by its shape: a namespace and a sequence of *)
(* entry elements, each with its optional children.  Every element has a   *)
(* handle [tag, entry, idx]; the text (or attribute value) of an element   *)
(* is derived from its handle, so that distinct elements carry distinct    *)
(* texts.  A Python string "key: value\nkey: value" is modelled as the     *)
(* sequence of its lines, each line a pair <<key, value>>.                 *)
(***************************************************************************)
EXTENDS Integers, Sequences, FiniteSets, TLC

\* ------------------------------------------------------------------ bounds
MaxElems     == 7   \* elements of a document, the children of authorLists apart
MaxEntries   == 2   \* entry elements of a document
MaxSynonyms  == 1   \* gene/name[@type="synonym"] elements of an entry
MaxFeatures  == 1   \* feature elements of an entry
MaxRefs      == 1   \* reference elements of an entry
MaxAuthors   == 3   \* children of an authorList

Instances == {1, 2}   \* XMLGraphParser objects

UNIPROT == "http://uniprot.org/uniprot"
OTHERNS == "urn:other"

B(b) == IF b THEN 1 ELSE 0

\* --------------------------------------------------------------- documents
RefShapes ==
  {r \in [citation : BOOLEAN, authorList : BOOLEAN, authors : 0..MaxAuthors] :
     (~r.authorList) => r.authors = 0}

\* the elements of a reference that are looked up by path, itself included
RefSize(r) == 1 + B(r.citation) + B(r.authorList)

\* the sequences of at most n reference elements
RefSeqs(n) == UNION {[1..k -> RefShapes] : k \in 0..n}

SumRefSize(rs) ==
  LET sum[i \in 0..Len(rs)] == IF i = 0 THEN 0 ELSE sum[i - 1] + RefSize(rs[i])
  IN  sum[Len(rs)]

\* the elements of an entry that are looked up by path, itself included
EntrySize(e) ==
  1 + B(e.accession) + B(e.fullName) + B(e.primary) + e.synonyms
    + B(e.scientific) + B(e.taxonomy) + e.features + SumRefSize(e.references)

EntryShapes ==
  {e \in [accession : BOOLEAN, fullName : BOOLEAN, primary : BOOLEAN,
          synonyms : 0..MaxSynonyms, scientific : BOOLEAN, taxonomy : BOOLEAN,
          references : RefSeqs(MaxRefs),
          features : 0..MaxFeatures] : EntrySize(e) <= MaxElems}

BareEntry ==
  [accession |-> FALSE, fullName |-> FALSE, primary |-> FALSE, synonyms |-> 0,
   scientific |-> FALSE, taxonomy |-> FALSE, references |-> <<>>, features |-> 0]

\* the entries of each size
EntriesOfSize ==
  [w \in 1..MaxElems |-> {y : y \in {z \in EntryShapes : EntrySize(z) = w}}] @@ <<>>

\* ------------------------------------------------- ElementTree lookups
Elem(tag, e, i) == [tag |-> tag, entry |-> e, idx |-> i, sub |-> 0]
None == Elem("None", 0, 0)
Opt(h) == IF h = None THEN <<>> ELSE <<h>>
\* elem.text, elem.get(..): the value an element carries, distinct per element
Text(h) == <<h.tag, h.entry, h.idx, h.sub>>

\* paths matched on the local tag name, whatever the namespace
QualifiedAny(root) == TRUE
\* self.ns qualifies every path; an element matches only in that namespace
Qualified(root) == root.xmlns = UNIPROT

\* root.findall(".//uniprot:entry", self.ns)
FindAllEntries(root) ==
  IF Qualified(root) THEN [i \in 1..Len(root.entries) |-> i] ELSE <<>>

\* entry.findall(".//uniprot:accession", self.ns)
FindAllAccessions(root, e) ==
  IF Qualified(root) /\ root.entries[e].accession
  THEN <<Elem("accession", e, 1)>> ELSE <<>>

\* return accessions[0].text if accessions else None: no raise
ParseProteinIdOrNone(root, e) ==
  LET accessions == FindAllAccessions(root, e)
  IN  [raised |-> FALSE,
       text |-> IF Len(accessions) > 0 THEN Text(accessions[1]) ELSE Text(None)]

\* parse_protein_id: the text of the first accession, or raise Exception
ParseProteinId(root, e) ==
  LET accessions == FindAllAccessions(root, e)
  IN  IF Len(accessions) > 0
      THEN [raised |-> FALSE, text |-> Text(accessions[1])]
      ELSE [raised |-> TRUE, text |-> Text(None)]

NFullName(e)   == B(e.fullName)
NPrimary(e)    == B(e.primary)
NSynonyms(e)   == e.synonyms
NScientific(e) == B(e.scientific)
NTaxonomy(e)   == B(e.taxonomy)
\* the number of elements of one tag in an entry
CountOf(tag, e) ==
  CASE tag = "fullName"   -> NFullName(e)
    [] tag = "primary"    -> NPrimary(e)
    [] tag = "synonym"    -> NSynonyms(e)
    [] tag = "scientific" -> NScientific(e)
    [] tag = "taxonomy"   -> NTaxonomy(e)

\* the elements of one tag of every entry, in document order
RECURSIVE Flatten(_)
Flatten(ss) == IF ss = <<>> THEN <<>> ELSE Head(ss) \o Flatten(Tail(ss))

RootFindAll(root, tag) ==
  IF Qualified(root)
  THEN Flatten([e \in 1..Len(root.entries) |->
                  [i \in 1..CountOf(tag, root.entries[e]) |-> Elem(tag, e, i)]])
  ELSE <<>>

First(s) == IF s = <<>> THEN None ELSE s[1]


\* entry.find(..): the lookup scoped to the entry
FindFullNameInEntry(root, entry) ==
  IF Qualified(root) /\ root.entries[entry].fullName
  THEN Elem("fullName", entry, 1) ELSE None
\* the lookups of the sub-parsers start at self.root, not at their entry argument
\* self.root.find('.//uniprot:protein/uniprot:recommendedName/uniprot:fullName')
FindFullName(root, entry) == First(RootFindAll(root, "fullName"))
\* self.root.find('.//uniprot:gene/uniprot:name[@type="primary"]')
FindPrimaryName(root, entry) == First(RootFindAll(root, "primary"))
\* self.root.findall('.//uniprot:gene/uniprot:name[@type="synonym"]')
FindAllSynonymNames(root, entry) == RootFindAll(root, "synonym")
\* self.root.find('.//uniprot:organism/uniprot:name[@type="scientific"]')
FindScientificName(root, entry) == First(RootFindAll(root, "scientific"))
\* self.root.find('.//uniprot:organism/uniprot:dbReference[@type="NCBI Taxonomy"]')
FindTaxonomy(root, entry) == First(RootFindAll(root, "taxonomy"))

\* entry.findall(".//uniprot:reference", self.ns)
FindAllReferences(root, e) ==
  IF Qualified(root)
  THEN [i \in 1..Len(root.entries[e].references) |-> Elem("reference", e, i)]
  ELSE <<>>
\* ref.find(".//uniprot:citation", self.ns)
FindCitation(root, ref) ==
  IF root.entries[ref.entry].references[ref.idx].citation
  THEN Elem("citation", ref.entry, ref.idx) ELSE None
\* ref.find(".//uniprot:authorList", self.ns)
FindAuthorList(root, ref) ==
  IF root.entries[ref.entry].references[ref.idx].authorList
  THEN Elem("authorList", ref.entry, ref.idx) ELSE None
\* the children of an authorList; the j-th author of reference idx of an entry
AuthorElem(al, j) == [tag |-> "author", entry |-> al.entry, idx |-> al.idx, sub |-> j]
\* author_list.find(..): the first child only
ChildrenFirst(root, al) ==
  [j \in 1..B(root.entries[al.entry].references[al.idx].authors > 0) |-> AuthorElem(al, j)]
Children(root, al) ==
  [j \in 1..root.entries[al.entry].references[al.idx].authors |-> AuthorElem(al, j)]
\* for author in (author_list or []): no raise
IterAuthorsOrEmpty(root, author_list) ==
  [raised |-> FALSE,
   elems |-> IF author_list = None THEN <<>> ELSE Children(root, author_list)]
\* for author in author_list: its children, or TypeError on None
IterAuthors(root, author_list) ==
  IF author_list = None
  THEN [raised |-> TRUE, elems |-> <<>>]
  ELSE [raised |-> FALSE, elems |-> Children(root, author_list)]
\* entry.findall(".//uniprot:feature", self.ns)
FindAllFeatures(root, e) ==
  IF Qualified(root)
  THEN [i \in 1..root.entries[e].features |-> Elem("feature", e, i)]
  ELSE <<>>

\* "\n".join([f"{key}: {value}" for key, value in elem.attrib.items()])
\* every citation and every feature carries one attribute, type
AttribLines(h) == << <<"type", Text(h)>> >>

\* ------------------------------------------------------ networkx DiGraph
EmptyGraph == [nodes |-> <<>>, edges |-> {}]
NoAttrs == [name |-> "", attr |-> <<>>]

\* DiGraph.add_node(n): the node without its data
AddNodeBare(g, n, name, attr) ==
  [g EXCEPT !.nodes = (n :> NoAttrs) @@ g.nodes]

\* DiGraph.add_node(n, name=.., attr=..)
AddNode(g, n, name, attr) ==
  [g EXCEPT !.nodes = (n :> [name |-> name, attr |-> attr]) @@ g.nodes]

\* add_edge(v, u): the endpoints swapped
AddEdgeReversed(g, u, v, attr) ==
  LET missing == {u, v} \ DOMAIN g.nodes
  IN  [nodes |-> g.nodes @@ [n \in missing |-> [name |-> "", attr |-> <<>>]],
       edges |-> {x \in g.edges : ~(x.src = v /\ x.dst = u)}
                 \cup {[src |-> v, dst |-> u, attr |-> attr]}]

\* DiGraph.add_edge(u, v, attr=..): missing endpoints are added without data
AddEdge(g, u, v, attr) ==
  LET missing == {u, v} \ DOMAIN g.nodes
  IN  [nodes |-> g.nodes @@ [n \in missing |-> NoAttrs],
       edges |-> {x \in g.edges : ~(x.src = u /\ x.dst = v)}
                 \cup {[src |-> u, dst |-> v, attr |-> attr]}]

\* return next(itertools.count()): a new count on every call
GenerateNodeIdFresh(counter) == [value |-> 0, node_id |-> counter]

\* next(self.node_id)
GenerateNodeId(counter) == [value |-> counter, node_id |-> counter + 1]

\* one generate_node_id / add_node / add_edge round for every element of elems
RECURSIVE AddChildren(_, _, _, _, _, _, _)
AddChildren(g, counter, parent, elems, name, key, label) ==
  IF elems = <<>> THEN [graph |-> g, node_id |-> counter]
  ELSE LET gen == GenerateNodeId(counter)
           g1  == AddNode(g, gen.value, name, << <<key, Text(Head(elems))>> >>)
           g2  == AddEdge(g1, parent, gen.value, label)
       IN  AddChildren(g2, gen.node_id, parent, Tail(elems), name, key, label)

\* ------------------------------------------------------------------ state
VARIABLES
  xml_file,         \* the document both parsers read
  pc,               \* per parser: position in __init__ / parse
  graph,            \* per parser: self.graph
  node_id,          \* per parser: self.node_id, the next value of the count
  entry_idx,        \* per parser: position of the for loop of parse
  protein_node_id,  \* per parser: parse_protein's local
  ref_idx,          \* per parser: position of the for loop of parse_references
  fet_idx,          \* per parser: position of the for loop of parse_feature
  error,            \* per parser: the exception that left parse, or "none"
  result,           \* per parser: <<g>> once parse returned g, else <<>>
  lpc,              \* Neo4J.import_to_neo4j: position
  graph_nx,         \* import_to_neo4j's argument, <<g>> during and after the call
  node_mapping,     \* import_to_neo4j's local dict: graph node id -> Node object
  node_pos,         \* position of the for loop over graph_nx.nodes
  edge_pos,         \* position of the for loop over graph_nx.edges
  graph_4j,         \* the database: the nodes and relationships created in it
  task,             \* per task of the DAG: the state of its task instance
  tries,            \* per task of the DAG: how many times it was started
  task_error,       \* per task of the DAG: the exception of its last try, or "none"
  xcom,             \* the value pushed under key 'graph', <<g>>, or <<>>
  gexf              \* the file at output_gexf_path, <<file>>, or <<>>

pvars == <<xml_file, pc, graph, node_id, entry_idx, protein_node_id,
           ref_idx, fet_idx, error, result>>
lvars == <<lpc, graph_nx, node_mapping, node_pos, edge_pos, graph_4j>>
dvars == <<task, tries, task_error, xcom, gexf>>
vars == <<pvars, lvars, dvars>>

\* the tasks of the DAG, and the tasks directly upstream of each
\* (parse_xml_task >> export_graphs_task >> import_to_neo4j_task)
Tasks == {"parse_xml_to_graph", "export_graphs", "import_graph_to_neo4j"}
Upstream(t) ==
  CASE t = "parse_xml_to_graph"    -> {}
    [] t = "export_graphs"         -> {"parse_xml_to_graph"}
    [] t = "import_graph_to_neo4j" -> {"export_graphs"}
\* default_args: 'retries': 1
Retries == 1

InParse(p) == pc[p] \notin {"new", "ready", "returned", "raised"}
InImport == lpc \in {"nodes", "relationships"}
\* single-threaded: a call runs to its end before another one starts
Idle == ~InImport /\ \A q \in Instances : ~InParse(q)

\* a UniProt document: entries, and at most n more entries of w elements in all
RECURSIVE IsDocument(_, _, _)
IsDocument(entries, n, w) ==
  \/ xml_file = [xmlns |-> UNIPROT, entries |-> entries]
  \/ /\ n > 0
     /\ \E s \in 1..w : \E e \in EntriesOfSize[s] :
          IsDocument(entries \o <<e>>, n - 1, w - s)

\* a document of another namespace: none of its elements matches a path of the
\* parser, whatever they are; entries without children stand for them
IsForeignDocument ==
  \E n \in 0..MaxEntries :
    xml_file = [xmlns |-> OTHERNS, entries |-> [i \in 1..n |-> BareEntry]]

Init ==
  /\ IsDocument(<<>>, MaxEntries, MaxElems) \/ IsForeignDocument
  /\ pc = [p \in Instances |-> "new"]
  /\ graph = [p \in Instances |-> EmptyGraph]
  /\ node_id = [p \in Instances |-> 0]
  /\ entry_idx = [p \in Instances |-> 0]
  /\ protein_node_id = [p \in Instances |-> 0]
  /\ ref_idx = [p \in Instances |-> 0]
  /\ fet_idx = [p \in Instances |-> 0]
  /\ error = [p \in Instances |-> "none"]
  /\ result = [p \in Instances |-> <<>>]
  /\ lpc = "idle"
  /\ graph_nx = <<>>
  /\ node_mapping = <<>>
  /\ node_pos = 0
  /\ edge_pos = 0
  /\ graph_4j = [nodes |-> <<>>, relationships |-> <<>>]
  /\ task = [t \in Tasks |-> "none"]
  /\ tries = [t \in Tasks |-> 0]
  /\ task_error = [t \in Tasks |-> "none"]
  /\ xcom = <<>>
  /\ gexf = <<>>

\* the entry the for loop of parse is at
Entry(p) == FindAllEntries(xml_file)[entry_idx[p]]

\* graph and node_id kept at module level: a new parser goes on from the
\* graph and the count the parsers before it left
ParserInitShared(graphs, counters, p) ==
  LET q == CHOOSE q \in Instances : \A r \in Instances : counters[r] <= counters[q]
  IN  [graph |-> graphs[q], node_id |-> counters[q]]

\* __init__: self.graph = nx.DiGraph(), self.node_id = itertools.count();
\* nothing of the parsers built before (graphs, counters) is carried over
ParserInit(graphs, counters, p) == [graph |-> EmptyGraph, node_id |-> 0]

\* XMLGraphParser.__init__
NewParser(p) ==
  /\ pc[p] = "new" /\ Idle
  /\ pc' = [pc EXCEPT ![p] = "ready"]
  /\ graph' = [graph EXCEPT ![p] = ParserInit(graph, node_id, p).graph]
  /\ node_id' = [node_id EXCEPT ![p] = ParserInit(graph, node_id, p).node_id]
  /\ UNCHANGED <<xml_file, entry_idx, protein_node_id, ref_idx, fet_idx, error, result>>
  /\ UNCHANGED <<lvars, dvars>>

Raise(p, exc) ==
  /\ pc' = [pc EXCEPT ![p] = "raised"]
  /\ error' = [error EXCEPT ![p] = exc]

\* parse: the call, findall of the entries
ParseCall(p) ==
  /\ pc[p] = "ready" /\ Idle
  /\ pc' = [pc EXCEPT ![p] = "entry"]
  /\ entry_idx' = [entry_idx EXCEPT ![p] = 1]
  /\ UNCHANGED <<xml_file, graph, node_id, protein_node_id, ref_idx, fet_idx, error, result>>
  /\ UNCHANGED <<lvars, dvars>>

\* parse: the for loop is exhausted, return self.graph
ParseReturn(p) ==
  /\ pc[p] = "entry"
  /\ entry_idx[p] > Len(FindAllEntries(xml_file))
  /\ pc' = [pc EXCEPT ![p] = "returned"]
  /\ result' = [result EXCEPT ![p] = <<graph[p]>>]
  /\ UNCHANGED <<xml_file, graph, node_id, entry_idx, protein_node_id, ref_idx, fet_idx, error>>
  /\ UNCHANGED <<lvars, dvars>>

\* parse_protein, the Protein node (with parse_protein_id)
ParseProtein(p) ==
  /\ pc[p] = "entry"
  /\ entry_idx[p] <= Len(FindAllEntries(xml_file))
  /\ LET entry == Entry(p)
         gen == GenerateNodeId(node_id[p])
         protein_id == ParseProteinId(xml_file, entry)
     IN  /\ node_id' = [node_id EXCEPT ![p] = gen.node_id]
         /\ IF ~protein_id.raised
            THEN /\ graph' = [graph EXCEPT ![p] =
                       AddNode(@, gen.value, "Protein", << <<"id", protein_id.text>> >>)]
                 /\ protein_node_id' = [protein_node_id EXCEPT ![p] = gen.value]
                 /\ pc' = [pc EXCEPT ![p] = "full_name"]
                 /\ UNCHANGED error
            ELSE /\ Raise(p, "Exception")
                 /\ UNCHANGED <<graph, protein_node_id>>
  /\ UNCHANGED <<xml_file, entry_idx, ref_idx, fet_idx, result>>
  /\ UNCHANGED <<lvars, dvars>>

\* a sub-parser that adds one child per element of elems under the Protein node
AddUnderProtein(p, elems, name, key, label, next) ==
  LET st == AddChildren(graph[p], node_id[p], protein_node_id[p], elems, name, key, label)
  IN  /\ graph' = [graph EXCEPT ![p] = st.graph]
      /\ node_id' = [node_id EXCEPT ![p] = st.node_id]
      /\ pc' = [pc EXCEPT ![p] = next]

ParseFullName(p) ==
  /\ pc[p] = "full_name"
  /\ AddUnderProtein(p, Opt(FindFullName(xml_file, Entry(p))), "FullName", "name",
                     "HAS_FULL_NAME", "primary_name")
  /\ UNCHANGED <<xml_file, entry_idx, protein_node_id, ref_idx, fet_idx, error, result>>
  /\ UNCHANGED <<lvars, dvars>>

ParsePrimaryName(p) ==
  /\ pc[p] = "primary_name"
  /\ AddUnderProtein(p, Opt(FindPrimaryName(xml_file, Entry(p))), "Gene", "name",
                     "FROM_GENE\nstatus: primary", "synonym_name")
  /\ UNCHANGED <<xml_file, entry_idx, protein_node_id, ref_idx, fet_idx, error, result>>
  /\ UNCHANGED <<lvars, dvars>>

ParseSynonymName(p) ==
  /\ pc[p] = "synonym_name"
  /\ AddUnderProtein(p, FindAllSynonymNames(xml_file, Entry(p)), "Gene", "name",
                     "FROM_GENE\nstatus: synonym", "scientific_name")
  /\ UNCHANGED <<xml_file, entry_idx, protein_node_id, ref_idx, fet_idx, error, result>>
  /\ UNCHANGED <<lvars, dvars>>

ParseScientificName(p) ==
  /\ pc[p] = "scientific_name"
  /\ LET scientific_name == FindScientificName(xml_file, Entry(p))
         ncbi_taxonomy_id == FindTaxonomy(xml_file, Entry(p))
     IN  IF None \notin {scientific_name, ncbi_taxonomy_id}
         THEN LET gen == GenerateNodeId(node_id[p])
                  g1 == AddNode(graph[p], gen.value, "Organism",
                                << <<"name", Text(scientific_name)>>,
                                   <<"taxonomy_id", Text(ncbi_taxonomy_id)>> >>)
              IN  /\ graph' = [graph EXCEPT ![p] =
                                 AddEdge(g1, protein_node_id[p], gen.value, "IN_ORGANISM")]
                  /\ node_id' = [node_id EXCEPT ![p] = gen.node_id]
         ELSE UNCHANGED <<graph, node_id>>
  /\ pc' = [pc EXCEPT ![p] = "references"]
  /\ ref_idx' = [ref_idx EXCEPT ![p] = 1]
  /\ UNCHANGED <<xml_file, entry_idx, protein_node_id, fet_idx, error, result>>
  /\ UNCHANGED <<lvars, dvars>>

\* parse_references: one round of the for loop, or its end
ParseReferences(p) ==
  /\ pc[p] = "references"
  /\ LET entry == Entry(p)
         references == FindAllReferences(xml_file, entry)
     IN  IF ref_idx[p] > Len(references)
         THEN /\ pc' = [pc EXCEPT ![p] = "feature"]
              /\ fet_idx' = [fet_idx EXCEPT ![p] = 1]
              /\ UNCHANGED <<graph, node_id, ref_idx, error>>
         ELSE LET ref == references[ref_idx[p]]
                  citation == FindCitation(xml_file, ref)
                  gen == GenerateNodeId(node_id[p])
                  g1 == AddNode(graph[p], gen.value, "Reference", AttribLines(citation))
                  g2 == AddEdge(g1, protein_node_id[p], gen.value, "HAS_REFERENCE")
                  author_list == FindAuthorList(xml_file, ref)
                  authors == IterAuthors(xml_file, author_list)
              IN  /\ UNCHANGED fet_idx
                  /\ IF citation = None
                     THEN \* citation.attrib on None, after generate_node_id
                          /\ Raise(p, "AttributeError")
                          /\ node_id' = [node_id EXCEPT ![p] = gen.node_id]
                          /\ UNCHANGED <<graph, ref_idx>>
                     ELSE IF authors.raised
                     THEN \* for .. in None, after the Reference node and its edge
                          /\ Raise(p, "TypeError")
                          /\ graph' = [graph EXCEPT ![p] = g2]
                          /\ node_id' = [node_id EXCEPT ![p] = gen.node_id]
                          /\ UNCHANGED ref_idx
                     ELSE LET st == AddChildren(g2, gen.node_id, gen.value,
                                                authors.elems,
                                                "Author", "name", "HAS_AUTHOR")
                          IN  /\ graph' = [graph EXCEPT ![p] = st.graph]
                              /\ node_id' = [node_id EXCEPT ![p] = st.node_id]
                              /\ ref_idx' = [ref_idx EXCEPT ![p] = @ + 1]
                              /\ UNCHANGED <<pc, error>>
  /\ UNCHANGED <<xml_file, entry_idx, protein_node_id, result>>
  /\ UNCHANGED <<lvars, dvars>>

\* parse_feature: one round of the for loop, or its end (back in parse)
ParseFeature(p) ==
  /\ pc[p] = "feature"
  /\ LET entry == Entry(p)
         features == FindAllFeatures(xml_file, entry)
     IN  IF fet_idx[p] > Len(features)
         THEN /\ pc' = [pc EXCEPT ![p] = "entry"]
              /\ entry_idx' = [entry_idx EXCEPT ![p] = @ + 1]
              /\ UNCHANGED <<graph, node_id, fet_idx>>
         ELSE LET fet == features[fet_idx[p]]
                  gen == GenerateNodeId(node_id[p])
                  g1 == AddNode(graph[p], gen.value, "Feature", AttribLines(fet))
              IN  /\ graph' = [graph EXCEPT ![p] =
                                 AddEdge(g1, protein_node_id[p], gen.value, "HAS_REFERENCE")]
                  /\ node_id' = [node_id EXCEPT ![p] = gen.node_id]
                  /\ fet_idx' = [fet_idx EXCEPT ![p] = @ + 1]
                  /\ UNCHANGED <<pc, entry_idx>>
  /\ UNCHANGED <<xml_file, protein_node_id, ref_idx, error, result>>
  /\ UNCHANGED <<lvars, dvars>>

\* ------------------------------------------------------------ Neo4J loader
\* iteration order of graph_nx.nodes and graph_nx.edges: the parser inserts
\* nodes and edges by increasing id, which is the order networkx iterates in
RECURSIVE SortedIds(_)
SortedIds(S) ==
  IF S = {} THEN <<>>
  ELSE LET m == CHOOSE x \in S : \A y \in S : x <= y
       IN  <<m>> \o SortedIds(S \ {m})

EdgeBefore(a, b) == a.src < b.src \/ (a.src = b.src /\ a.dst <= b.dst)

RECURSIVE SortedEdges(_)
SortedEdges(S) ==
  IF S = {} THEN <<>>
  ELSE LET m == CHOOSE x \in S : \A y \in S : EdgeBefore(x, y)
       IN  <<m>> \o SortedEdges(S \ {m})

Nodes(g) == SortedIds(DOMAIN g.nodes)
Edges(g) == SortedEdges(g.edges)

\* Neo4J.create_neo4j_node: Node('Node', **dict(node)), a new object
CreateNeo4jNode(obj, data) == [obj |-> obj, label |-> "Node", properties |-> data]

\* Relationship(target, 'CONNECTED_TO', source, ..): the endpoints swapped
CreateNeo4jRelationshipSwapped(source, target, attr) ==
  [start |-> target, type |-> "CONNECTED_TO", end |-> source,
   properties |-> [attr |-> attr]]

\* Neo4J.create_neo4j_relationship: Relationship(source, 'CONNECTED_TO', target, **dict(edge))
CreateNeo4jRelationship(source, target, attr) ==
  [start |-> source, type |-> "CONNECTED_TO", end |-> target,
   properties |-> [attr |-> attr]]

\* import_to_neo4j(graph_nx) is called with the graph parse returned
ImportToNeo4j(p) ==
  /\ lpc = "idle" /\ Idle
  /\ pc[p] = "returned"
  /\ graph_nx' = result[p]
  /\ node_mapping' = <<>>
  /\ node_pos' = 1
  /\ lpc' = "nodes"
  /\ UNCHANGED <<edge_pos, graph_4j>>
  /\ UNCHANGED <<pvars, dvars>>

\* the first for loop: one node, or its end
ImportNode ==
  /\ lpc = "nodes"
  /\ LET ids == Nodes(graph_nx[1])
     IN  IF node_pos > Len(ids)
         THEN /\ lpc' = "relationships"
              /\ edge_pos' = 1
              /\ UNCHANGED <<node_mapping, node_pos, graph_4j>>
         ELSE LET node == ids[node_pos]
                  n == CreateNeo4jNode(Len(graph_4j.nodes) + 1, graph_nx[1].nodes[node])
              IN  /\ node_mapping' = (node :> n) @@ node_mapping
                  /\ graph_4j' = [graph_4j EXCEPT !.nodes = Append(@, n)]
                  /\ node_pos' = node_pos + 1
                  /\ UNCHANGED <<lpc, edge_pos>>
  /\ UNCHANGED graph_nx
  /\ UNCHANGED <<pvars, dvars>>

\* the second for loop: one relationship, or its end
ImportRelationship ==
  /\ lpc = "relationships"
  /\ LET es == Edges(graph_nx[1])
     IN  IF edge_pos > Len(es)
         THEN /\ lpc' = "done"
              /\ UNCHANGED <<edge_pos, graph_4j>>
         ELSE LET edge == es[edge_pos]
              IN  IF {edge.src, edge.dst} \subseteq DOMAIN node_mapping
                  THEN /\ graph_4j' = [graph_4j EXCEPT !.relationships =
                             Append(@, CreateNeo4jRelationship(node_mapping[edge.src],
                                                               node_mapping[edge.dst],
                                                               edge.attr))]
                       /\ edge_pos' = edge_pos + 1
                       /\ UNCHANGED lpc
                  ELSE \* KeyError from node_mapping[..]
                       /\ lpc' = "raised"
                       /\ UNCHANGED <<edge_pos, graph_4j>>
  /\ UNCHANGED <<graph_nx, node_mapping, node_pos>>
  /\ UNCHANGED <<pvars, dvars>>

Parser(p) ==
  \/ NewParser(p)
  \/ ParseCall(p)
  \/ ParseProtein(p)
  \/ ParseFullName(p)
  \/ ParsePrimaryName(p)
  \/ ParseSynonymName(p)
  \/ ParseScientificName(p)
  \/ ParseReferences(p)
  \/ ParseFeature(p)
  \/ ParseReturn(p)

Loader(p) ==
  \/ ImportToNeo4j(p)
  \/ ImportNode
  \/ ImportRelationship

\* one parser and the loader
Next == Parser(1) \/ Loader(1)

Spec == Init /\ [][Next]_vars

\* the same document parsed twice, by two independent parsers: the second
\* parser is built at any time, and parses once the first has left parse
Finished(p) == pc[p] \in {"returned", "raised"}

NextTwo == Parser(1) \/ NewParser(2) \/ (Finished(1) /\ Parser(2))

SpecTwo == Init /\ [][NextTwo]_vars

\* ------------------------------------------------------------ the workflow
\* the scheduler starts a task instance once every upstream task succeeded;
\* a task instance up for retry is started again
StartTask(t) ==
  /\ task[t] \in {"none", "up_for_retry"}
  /\ \A u \in Upstream(t) : task[u] = "success"
  /\ task' = [task EXCEPT ![t] = "running"]
  /\ tries' = [tries EXCEPT ![t] = @ + 1]
  /\ task_error' = [task_error EXCEPT ![t] = "none"]
  /\ UNCHANGED <<xcom, gexf>>
  /\ UNCHANGED <<pvars, lvars>>

\* a task whose upstream task failed is not run
UpstreamFailed(t) ==
  /\ task[t] = "none"
  /\ \E u \in Upstream(t) : task[u] \in {"failed", "upstream_failed"}
  /\ task' = [task EXCEPT ![t] = "upstream_failed"]
  /\ UNCHANGED <<tries, task_error, xcom, gexf>>
  /\ UNCHANGED <<pvars, lvars>>

\* an exception leaves the callable: retried while tries are left
FailTask(t, exc) ==
  /\ task' = [task EXCEPT ![t] = IF tries[t] <= Retries THEN "up_for_retry" ELSE "failed"]
  /\ task_error' = [task_error EXCEPT ![t] = exc]

\* a call f(*args, **kwargs) binds its arguments to the parameters of f:
\* no more positional arguments than parameters, every keyword a parameter
\* not bound by position, every parameter bound
CallBinds(params, npositional, keywords) ==
  /\ npositional <= Len(params)
  /\ keywords \subseteq {params[i] : i \in (npositional + 1)..Len(params)}
  /\ npositional + Cardinality(keywords) = Len(params)

\* def import_to_neo4j(self, graph_nx)
ImportToNeo4jParams == <<"self", "graph_nx">>

\* export_graph_gexf: pagerank set as a node attribute, the graph written
ExportGraphGexf(g) == [graph |-> g, node_attributes |-> {"pagerank"}]

\* the parser of the running try: XMLGraphParser(input_xml_path) of each try
\* is a new object
TryParser == tries["parse_xml_to_graph"]

\* kwargs['ti'].xcom_push(key='graph', value=graph) once parse returned;
\* an exception of parse leaves the callable
XcomPush ==
  /\ Finished(TryParser)
  /\ IF pc[TryParser] = "returned"
     THEN /\ xcom' = result[TryParser]
          /\ task' = [task EXCEPT !["parse_xml_to_graph"] = "success"]
          /\ UNCHANGED task_error
     ELSE /\ FailTask("parse_xml_to_graph", error[TryParser])
          /\ UNCHANGED xcom
  /\ UNCHANGED <<tries, gexf>>
  /\ UNCHANGED <<pvars, lvars>>

\* the callable parse_xml_to_graph
ParseXmlToGraph ==
  /\ task["parse_xml_to_graph"] = "running"
  /\ Parser(TryParser) \/ XcomPush

\* the callable export_graphs
ExportGraphs ==
  /\ task["export_graphs"] = "running"
  /\ IF xcom # <<>>
     THEN /\ gexf' = <<ExportGraphGexf(xcom[1])>>
          /\ task' = [task EXCEPT !["export_graphs"] = "success"]
          /\ UNCHANGED task_error
     ELSE \* xcom_pull gave None: pagerank(None)
          /\ FailTask("export_graphs", "AttributeError")
          /\ UNCHANGED gexf
  /\ UNCHANGED <<tries, xcom>>
  /\ UNCHANGED <<pvars, lvars>>

\* neo4j.import_to_neo4j(graph, export_graph_gexf, method='gefx'): with self,
\* three positional arguments and the keyword method
ImportToNeo4jCall ==
  /\ lpc = "idle"
  /\ IF CallBinds(ImportToNeo4jParams, 3, {"method"})
     THEN /\ graph_nx' = xcom
          /\ node_mapping' = <<>>
          /\ node_pos' = 1
          /\ lpc' = "nodes"
          /\ UNCHANGED <<task, task_error>>
     ELSE /\ FailTask("import_graph_to_neo4j", "TypeError")
          /\ UNCHANGED <<lpc, graph_nx, node_mapping, node_pos>>
  /\ UNCHANGED <<edge_pos, graph_4j, tries, xcom, gexf>>
  /\ UNCHANGED pvars

\* import_to_neo4j is left, by return or by an exception
ImportToNeo4jEnd ==
  /\ lpc \in {"done", "raised"}
  /\ IF lpc = "done"
     THEN /\ task' = [task EXCEPT !["import_graph_to_neo4j"] = "success"]
          /\ UNCHANGED task_error
     ELSE FailTask("import_graph_to_neo4j", "KeyError")
  /\ lpc' = "idle"
  /\ UNCHANGED <<graph_nx, node_mapping, node_pos, edge_pos, graph_4j, tries, xcom, gexf>>
  /\ UNCHANGED pvars

\* the callable import_graph_to_neo4j
ImportGraphToNeo4j ==
  /\ task["import_graph_to_neo4j"] = "running"
  /\ ImportToNeo4jCall \/ ImportNode \/ ImportRelationship \/ ImportToNeo4jEnd

\* one run of the DAG
NextDag ==
  \/ \E t \in Tasks : StartTask(t)
  \/ \E t \in Tasks : UpstreamFailed(t)
  \/ ParseXmlToGraph
  \/ ExportGraphs
  \/ ImportGraphToNeo4j

SpecDag == Init /\ [][NextDag]_vars

\* ================================================================ claims
Returned(p) == pc[p] = "returned"
G(p) == result[p][1]
Entries == xml_file.entries
\* the entry elements in the UniProt namespace
NumEntries == IF xml_file.xmlns = UNIPROT THEN Len(Entries) ELSE 0

NodesOfKind(g, kind) == {n \in DOMAIN g.nodes : g.nodes[n].name = kind}
InEdges(g, n) == {e \in g.edges : e.dst = n}
OutEdges(g, n) == {e \in g.edges : e.src = n}
\* the nodes of a kind by increasing id, which is the order of their creation
KindSeq(g, kind) == SortedIds(NodesOfKind(g, kind))
\* the last node of a kind created before node n
LastBefore(g, kind, n) ==
  LET S == {m \in NodesOfKind(g, kind) : m < n}
  IN  CHOOSE m \in S : \A k \in S : k <= m

\* C1: when parse returns, the graph has exactly one Protein node per entry
\* element, and no two nodes share an id: every id handed out by the counter
\* is the id of one node of its own.
C1_ProteinPerEntryUniqueIds ==
  \A p \in Instances : Returned(p) =>
    /\ Cardinality(NodesOfKind(G(p), "Protein")) = NumEntries
    /\ Cardinality(DOMAIN G(p).nodes) = node_id[p]

C1_Witness ==
  /\ Returned(1) /\ NumEntries = 2
  /\ Cardinality(DOMAIN G(1).nodes) >= 5

\* C2: in the returned graph a Protein node has no inbound edge and every
\* other node has exactly one, from its structural parent (the Protein node of
\* its entry, or the owning Reference node for an Author); and no step adds an
\* edge whose target existed before the step.
ParentKind(kind) == IF kind = "Author" THEN "Reference" ELSE "Protein"

C2_ForestState ==
  \A p \in Instances : Returned(p) =>
    \A n \in DOMAIN G(p).nodes :
      LET kind == G(p).nodes[n].name
          ins == InEdges(G(p), n)
      IN  IF kind = "Protein" THEN ins = {}
          ELSE /\ Cardinality(ins) = 1
               /\ \A e \in ins :
                    /\ e.src \in NodesOfKind(G(p), ParentKind(kind))
                    /\ e.src = LastBefore(G(p), ParentKind(kind), n)

C2_EdgeStep ==
  \A p \in Instances :
    /\ \A e \in graph'[p].edges \ graph[p].edges : e.dst \notin DOMAIN graph[p].nodes
    /\ graph[p].edges \subseteq graph'[p].edges

\* C2: every returned graph is a forest of entry subtrees (each node but the
\* Protein roots has one inbound edge, from its structural parent), and no step
\* adds an edge to a node that existed before the step.
C2_SingleParentForest == [](C2_ForestState) /\ [][C2_EdgeStep]_vars

C2_Witness ==
  /\ Returned(1) /\ NumEntries = 2
  /\ Entries[2].references # <<>>
  /\ NodesOfKind(G(1), "Author") # {}

\* C3: in the returned graph the Reference node of a reference element whose
\* authorList has k children has out-degree k, all its outgoing edges are
\* labeled HAS_AUTHOR and lead to k distinct Author nodes (one per child), and
\* its only inbound edge is labeled HAS_REFERENCE and comes from the Protein
\* node of its entry.
\* the reference elements of the document, in document order
DocRefs ==
  Flatten([i \in 1..NumEntries |-> [j \in 1..Len(Entries[i].references) |-> <<i, j>>]])

C3_ReferenceAuthors ==
  \A p \in Instances : Returned(p) =>
    LET g == G(p)
        rn == KindSeq(g, "Reference")
        pn == KindSeq(g, "Protein")
    IN  /\ Len(rn) = Len(DocRefs)
        /\ \A x \in 1..Len(DocRefs) :
             LET i == DocRefs[x][1]
                 j == DocRefs[x][2]
                 k == Entries[i].references[j].authors
                 out == OutEdges(g, rn[x])
             IN  /\ Cardinality(out) = k
                 /\ \A e \in out : e.attr = "HAS_AUTHOR" /\ g.nodes[e.dst].name = "Author"
                 /\ Cardinality({e.dst : e \in out}) = k
                 /\ {g.nodes[e.dst].attr : e \in out}
                      = {<< <<"name", <<"author", i, j, a>> >> >> : a \in 1..k}
                 /\ InEdges(g, rn[x])
                      = {[src |-> pn[i], dst |-> rn[x], attr |-> "HAS_REFERENCE"]}

C3_Witness ==
  /\ Returned(1)
  /\ \E i \in 1..NumEntries : \E j \in 1..Len(Entries[i].references) :
       Entries[i].references[j].authors = 3
  /\ \E n \in NodesOfKind(G(1), "Reference") : Cardinality(OutEdges(G(1), n)) = 3

\* C4: in the returned graph, the Protein node of an entry without reference
\* and feature elements has as many outgoing edges as the entry has optional
\* fields (a full name, a primary gene name, each synonym, an organism); an
\* entry with only an accession gives a Protein node "id: <accession>" without
\* outgoing edges.
OptionalFieldCount(e) ==
  B(e.fullName) + B(e.primary) + e.synonyms + B(e.scientific /\ e.taxonomy)

C4_OutDegreeOwnFields ==
  \A p \in Instances : Returned(p) =>
    LET g == G(p)
        pn == KindSeq(g, "Protein")
    IN  \A i \in 1..NumEntries :
          (Entries[i].references = <<>> /\ Entries[i].features = 0) =>
            /\ g.nodes[pn[i]].attr = << <<"id", <<"accession", i, 1, 0>> >> >>
            /\ Cardinality(OutEdges(g, pn[i])) = OptionalFieldCount(Entries[i])

\* once parse has raised, the parser does nothing more
RaisedIsFinal ==
  \A p \in Instances : pc[p] = "raised" =>
    /\ pc'[p] = "raised" /\ error'[p] = error[p] /\ result'[p] = <<>>
    /\ graph'[p] = graph[p] /\ node_id'[p] = node_id[p] /\ entry_idx'[p] = entry_idx[p]

\* C5: parse raises when it reaches an entry without accession: it stops at
\* that entry (no later entry gets a Protein node) and returns no graph; a
\* document with such an entry never has its graph returned.
C5_State ==
  \A p \in Instances :
    /\ Returned(p) => \A i \in 1..NumEntries : Entries[i].accession
    /\ pc[p] = "raised" => result[p] = <<>>
    /\ error[p] = "Exception" =>
         /\ pc[p] = "raised"
         /\ ~Entries[entry_idx[p]].accession
         /\ Cardinality(NodesOfKind(graph[p], "Protein")) = entry_idx[p] - 1

C5_Step ==
  \A p \in Instances :
    (/\ pc[p] = "entry" /\ entry_idx[p] <= NumEntries
     /\ ~Entries[entry_idx[p]].accession)
    => (pc'[p] = "raised" /\ error'[p] = "Exception" /\ graph'[p] = graph[p])

\* C5: an entry without accession makes parse raise at that entry, for good,
\* and no graph is returned.
C5_MissingAccessionAborts == [](C5_State) /\ [][C5_Step /\ RaisedIsFinal]_vars

C5_Witness ==
  /\ error[1] = "Exception" /\ entry_idx[1] = 1 /\ NumEntries = 2
  /\ Entries[2].accession

\* C6: parse raises at a reference without citation or without authorList:
\* no later reference, no feature of the entry and no later entry is processed,
\* and no graph is returned; a document with such a reference never has its
\* graph returned.
RefComplete(r) == r.citation /\ r.authorList

C6_State ==
  \A p \in Instances :
    /\ Returned(p) =>
         \A i \in 1..NumEntries : \A j \in 1..Len(Entries[i].references) :
           RefComplete(Entries[i].references[j])
    /\ error[p] \in {"AttributeError", "TypeError"} =>
         LET r == Entries[entry_idx[p]].references[ref_idx[p]]
             mine == {n \in DOMAIN graph[p].nodes : n > protein_node_id[p]}
         IN  /\ pc[p] = "raised" /\ result[p] = <<>>
             /\ IF error[p] = "AttributeError" THEN ~r.citation
                ELSE r.citation /\ ~r.authorList
             /\ Cardinality(NodesOfKind(graph[p], "Protein")) = entry_idx[p]
             /\ mine \cap NodesOfKind(graph[p], "Feature") = {}
             /\ Cardinality(mine \cap NodesOfKind(graph[p], "Reference"))
                  = ref_idx[p] - B(error[p] = "AttributeError")

C6_Step ==
  \A p \in Instances :
    (/\ pc[p] = "references"
     /\ ref_idx[p] <= Len(Entries[entry_idx[p]].references)
     /\ ~RefComplete(Entries[entry_idx[p]].references[ref_idx[p]]))
    => (pc'[p] = "raised" /\ error'[p] \in {"AttributeError", "TypeError"})

\* C6: a reference without citation or authorList makes parse raise at that
\* reference, for good, and no graph is returned.
C6_MalformedReferenceAborts == [](C6_State) /\ [][C6_Step /\ RaisedIsFinal]_vars

C6_Witness ==
  /\ error[1] \in {"AttributeError", "TypeError"}
  /\ NumEntries = 2 /\ entry_idx[1] = 1
  /\ Entries[1].features > 0

\* C7: two independent parsers of the same document return isomorphic graphs:
\* the map that sends the i-th node of one graph (by increasing id) to the i-th
\* node of the other preserves kind, attr, and the edges with their direction
\* and label.
Rank(g, n) == Cardinality({m \in DOMAIN g.nodes : m <= n})

Canon(g) ==
  [nodes |-> [i \in 1..Cardinality(DOMAIN g.nodes) |-> g.nodes[Nodes(g)[i]]],
   edges |-> {[src |-> Rank(g, e.src), dst |-> Rank(g, e.dst), attr |-> e.attr] :
              e \in g.edges}]

C7_IsomorphicGraphs ==
  (Returned(1) /\ Returned(2)) =>
    /\ Cardinality(G(1).edges) = Cardinality(G(2).edges)
    /\ Canon(G(1)) = Canon(G(2))

C7_Witness ==
  /\ Returned(1) /\ Returned(2) /\ NumEntries = 2
  /\ Cardinality(DOMAIN G(2).nodes) >= 5

\* C8: on a document without any element of the UniProt namespace parse never
\* raises, creates nothing, and returns the graph without nodes and edges.
C8_ForeignNamespaceEmptyGraph ==
  xml_file.xmlns # UNIPROT =>
    \A p \in Instances :
      /\ pc[p] # "raised" /\ error[p] = "none"
      /\ graph[p] = EmptyGraph /\ node_id[p] = 0
      /\ Returned(p) => (G(p).nodes = <<>> /\ G(p).edges = {})

C8_Witness ==
  /\ xml_file.xmlns # UNIPROT /\ Len(Entries) = 2
  /\ Returned(1)

\* C9: import_to_neo4j loads in two passes: one database node labeled Node per
\* graph node, then one relationship of type CONNECTED_TO per graph edge; a
\* relationship is created only when the database nodes of both its endpoints
\* exist, and it runs between the database nodes that node_mapping gives for the
\* source and the target of its edge.
Range(f) == {f[x] : x \in DOMAIN f}

C9_State ==
  lpc # "idle" =>
    LET g == graph_nx[1]
        dbn == graph_4j.nodes
        dbr == graph_4j.relationships
    IN  /\ \A i \in 1..Len(dbn) : dbn[i].label = "Node"
        /\ \A i \in 1..Len(dbr) :
             /\ dbr[i].type = "CONNECTED_TO"
             /\ {dbr[i].start, dbr[i].end} \subseteq Range(dbn)
        /\ Len(dbr) > 0 => Len(dbn) = Cardinality(DOMAIN g.nodes)
        /\ lpc = "done" =>
             /\ Len(dbn) = Cardinality(DOMAIN g.nodes)
             /\ DOMAIN node_mapping = DOMAIN g.nodes
             /\ Range(node_mapping) = Range(dbn)
             /\ \A n, m \in DOMAIN g.nodes : n # m => node_mapping[n] # node_mapping[m]
             /\ \A n \in DOMAIN g.nodes : node_mapping[n].properties = g.nodes[n]
             /\ Len(dbr) = Cardinality(g.edges)
             /\ \A e \in g.edges :
                  Cardinality({i \in 1..Len(dbr) :
                     /\ dbr[i].start = node_mapping[e.src]
                     /\ dbr[i].end = node_mapping[e.dst]
                     /\ dbr[i].properties = [attr |-> e.attr]}) = 1

C9_Step ==
  /\ Len(graph_4j'.relationships) > Len(graph_4j.relationships) =>
       LET r == graph_4j'.relationships[Len(graph_4j'.relationships)]
       IN  /\ {r.start, r.end} \subseteq Range(graph_4j.nodes)
           /\ graph_4j'.nodes = graph_4j.nodes
  /\ Len(graph_4j'.nodes) > Len(graph_4j.nodes) => graph_4j.relationships = <<>>

\* C9: the load creates the nodes, then the relationships, one per graph node
\* and per graph edge, each relationship between the database nodes mapped to
\* the endpoints of its edge, which exist when it is created.
C9_TwoPassLoad == [](C9_State) /\ [][C9_Step]_vars

C9_Witness ==
  /\ lpc = "done"
  /\ Len(graph_4j.relationships) >= 4
  /\ \E i \in 1..Len(graph_4j.relationships) :
       graph_4j.relationships[i].properties.attr = "HAS_AUTHOR"

\* C10: the FullName, Gene and Organism children of every Protein node come
\* from the whole document, not from the entry of the node.
\* the first entry that has an element of a tag, or 0
FirstWith(tag) ==
  LET S == {i \in 1..NumEntries : CountOf(tag, Entries[i]) > 0}
  IN  IF S = {} THEN 0 ELSE CHOOSE i \in S : \A k \in S : i <= k

ChildEdges(g, n, label) == {e \in OutEdges(g, n) : e.attr = label}
ChildAttrs(g, n, label, kind) ==
  {g.nodes[e.dst].attr : e \in {x \in ChildEdges(g, n, label) : g.nodes[x.dst].name = kind}}

\* the children with one label are exactly one child per attr of attrs
HasChildren(g, n, label, kind, attrs) ==
  /\ Cardinality(ChildEdges(g, n, label)) = Cardinality(attrs)
  /\ ChildAttrs(g, n, label, kind) = attrs

NameOf(tag, first) ==
  IF first = 0 THEN {} ELSE {<< <<"name", <<tag, first, 1, 0>> >> >>}

OrganismOf(fs, ft) ==
  IF fs = 0 \/ ft = 0 THEN {}
  ELSE {<< <<"name", <<"scientific", fs, 1, 0>> >>,
           <<"taxonomy_id", <<"taxonomy", ft, 1, 0>> >> >>}

AllSynonyms ==
  UNION {{<< <<"name", <<"synonym", i, k, 0>> >> >> : k \in 1..Entries[i].synonyms} :
         i \in 1..NumEntries}

\* C10 as stated: every Protein node gets, for the full name, the primary gene,
\* the synonym gene and the organism, one child built from the single first
\* match of the whole document.
C10_FirstMatchOnly ==
  \A p \in Instances : Returned(p) =>
    \A n \in NodesOfKind(G(p), "Protein") :
      /\ HasChildren(G(p), n, "HAS_FULL_NAME", "FullName", NameOf("fullName", FirstWith("fullName")))
      /\ HasChildren(G(p), n, "FROM_GENE\nstatus: primary", "Gene", NameOf("primary", FirstWith("primary")))
      /\ HasChildren(G(p), n, "FROM_GENE\nstatus: synonym", "Gene", NameOf("synonym", FirstWith("synonym")))
      /\ HasChildren(G(p), n, "IN_ORGANISM", "Organism",
                     OrganismOf(FirstWith("scientific"), FirstWith("taxonomy")))

\* C10 amended: every Protein node gets a FullName child from the first full
\* name of the whole document, a Gene child from its first primary gene name,
\* one Gene child for every synonym gene name of the whole document, and an
\* Organism child from the first scientific name and the first NCBI Taxonomy
\* reference of the whole document when both exist.
C10_DocumentWideChildren ==
  \A p \in Instances : Returned(p) =>
    \A n \in NodesOfKind(G(p), "Protein") :
      /\ HasChildren(G(p), n, "HAS_FULL_NAME", "FullName", NameOf("fullName", FirstWith("fullName")))
      /\ HasChildren(G(p), n, "FROM_GENE\nstatus: primary", "Gene", NameOf("primary", FirstWith("primary")))
      /\ HasChildren(G(p), n, "FROM_GENE\nstatus: synonym", "Gene", AllSynonyms)
      /\ HasChildren(G(p), n, "IN_ORGANISM", "Organism",
                     OrganismOf(FirstWith("scientific"), FirstWith("taxonomy")))

C10_Witness ==
  /\ Returned(1) /\ NumEntries = 2
  /\ Entries[1].synonyms = 1 /\ Entries[2].synonyms = 1
  /\ ~Entries[1].fullName /\ Entries[2].fullName

\* ------------------------------------------------------------------- C11
\* the steps in the order extract, export, load, one at a time, each later
\* step on the graph the extraction produced
C11_Order ==
  /\ Cardinality({t \in Tasks : task[t] = "running"}) <= 1
  /\ tries["export_graphs"] > 0 => task["parse_xml_to_graph"] = "success"
  /\ tries["import_graph_to_neo4j"] > 0 => task["export_graphs"] = "success"
  /\ (\E p \in Instances : InParse(p)) => task["parse_xml_to_graph"] = "running"
  /\ InImport => task["import_graph_to_neo4j"] = "running"
  /\ xcom # <<>> => /\ task["parse_xml_to_graph"] = "success"
                    /\ xcom = result[TryParser]
  /\ gexf # <<>> => gexf[1].graph = xcom[1]
  /\ graph_nx # <<>> => graph_nx = xcom

\* once extraction and export succeeded the load step does not fail, and it
\* succeeds with the loader run to its end on the extracted graph
C11_LoadCompletes ==
  /\ (task["parse_xml_to_graph"] = "success" /\ task["export_graphs"] = "success")
       => task["import_graph_to_neo4j"] \notin {"up_for_retry", "failed"}
  /\ task["import_graph_to_neo4j"] = "success"
       => /\ graph_nx = xcom
          /\ Len(graph_4j.nodes) = Cardinality(DOMAIN xcom[1].nodes)
          /\ Len(graph_4j.relationships) = Cardinality(xcom[1].edges)

\* C11: the workflow runs extract, export, load strictly in this order, no
\* two steps at the same time, each later step on the graph of the
\* extraction, and when extraction and export succeed the load step invokes
\* the loader on that graph and completes the database load
C11_WorkflowOrderAndLoad ==
  C11_Order /\ C11_LoadCompletes

\* ------------------------------------------------------------------- C12
\* every edge of a parser's graph joins two nodes created by add_node with a
\* kind and an attr, from the smaller id to the strictly larger one, and every
\* id in the graph was handed out by the counter
C12_State ==
  \A p \in Instances :
    /\ \A e \in graph[p].edges :
         /\ {e.src, e.dst} \subseteq DOMAIN graph[p].nodes
         /\ e.src < e.dst
    /\ \A n \in DOMAIN graph[p].nodes :
         /\ graph[p].nodes[n].name # ""
         /\ graph[p].nodes[n].attr # <<>>
         /\ n < node_id[p]

\* the counter of a parser only increases, also from one entry to the next
C12_Step ==
  \A p \in Instances : node_id'[p] >= node_id[p]

\* C12: in every state reachable during a parse, the graph left behind by an
\* aborted parse included, every edge connects two nodes that were both
\* created with a kind and an attr and goes from a smaller id to a strictly
\* larger id; the one counter only increases and is never reset
C12_EdgesBetweenCreatedNodes ==
  [](C12_State) /\ [][C12_Step]_vars

\* a parse aborted in its second entry on a citation or an authorList, with
\* edges in the graph it leaves behind
C12_Witness ==
  /\ pc[1] = "raised"
  /\ error[1] \in {"AttributeError", "TypeError"}
  /\ entry_idx[1] = 2
  /\ graph[1].edges # {}

====
